---- MODULE Spec2Model ----
(***************************************************************************)
(* Model of server/prisma/migrations/dry_run_migrate_snapshots_to_nisab.py *)
(* (the dry-run planner AssetSnapshot -> Nisab record CSV).                *)
(*                                                                         *)
(* Text is a sequence of one-character strings, so that prefix tests,      *)
(* slicing, timestamp parsing, timestamp formatting and the store's        *)
(* byte-wise text comparison are computed and not assumed.                 *)
(* A Python value is a record [t, s, n]: t is the type tag, s the text of  *)
(* a str, n the number of an int or bool.                                  *)
(***************************************************************************)
EXTENDS Integers, Sequences, FiniteSets, TLC

(* ------------------------------ bounds -------------------------------- *)
MaxRows == 2
MaxRuns == 2

(* F applied to the value of v. TLC evaluates a LET definition or an      *)
(* operator argument again at each use while it evaluates ENABLED; a      *)
(* value bound by a set constructor is computed once.                     *)
With(v, F(_)) == CHOOSE r \in {F(x) : x \in {v}} : TRUE

(* --------------------------- python values ---------------------------- *)
None == [t |-> "None", s |-> <<>>, n |-> 0]
Str(chars) == [t |-> "str", s |-> chars, n |-> 0]
PyInt(k) == [t |-> "int", s |-> <<>>, n |-> k]
Bool(b) == [t |-> "bool", s |-> <<>>, n |-> IF b THEN 1 ELSE 0]
EmptyStr == Str(<<>>)

Truthy(v) ==
  CASE v.t = "None" -> FALSE
    [] v.t = "str" -> Len(v.s) > 0
    [] OTHER -> v.n # 0

DigitChars == <<"0", "1", "2", "3", "4", "5", "6", "7", "8", "9">>
IsDigit(c) == \E k \in 1..10 : DigitChars[k] = c
DigitVal(c) == (CHOOSE k \in 1..10 : DigitChars[k] = c) - 1

RECURSIVE NatText(_)
NatText(k) == IF k < 10 THEN <<DigitChars[k + 1]>>
              ELSE NatText(k \div 10) \o <<DigitChars[(k % 10) + 1]>>

\* str(x) of a Python value
PyStr(v) ==
  CASE v.t = "None" -> <<"N", "o", "n", "e">>
    [] v.t = "str" -> v.s
    [] v.t = "bool" -> IF v.n = 1 THEN <<"T", "r", "u", "e">>
                       ELSE <<"F", "a", "l", "s", "e">>
    [] OTHER -> IF v.n < 0 THEN <<"-">> \o NatText(0 - v.n) ELSE NatText(v.n)

\* the cell csv.writer emits for a value: None is the empty cell
CsvCell(v) == IF v.t = "None" THEN <<>> ELSE PyStr(v)

(* ------------------- datetime.fromisoformat / isoformat --------------- *)
NoDate == [exc |-> "ValueError", y |-> 0, mo |-> 0, d |-> 0,
           h |-> 0, mi |-> 0, sec |-> 0, aware |-> FALSE, off |-> 0]
TypeErr == [NoDate EXCEPT !.exc = "TypeError"]

AllDigits(s) == \A k \in 1..Len(s) : IsDigit(s[k])
RECURSIVE DigitsVal(_)
DigitsVal(s) == IF Len(s) = 0 THEN 0
                ELSE 10 * DigitsVal(SubSeq(s, 1, Len(s) - 1)) + DigitVal(s[Len(s)])

IsLeap(y) == (y % 4 = 0) /\ ((y % 100 # 0) \/ (y % 400 = 0))
DaysInMonth(y, m) ==
  IF m = 2 THEN (IF IsLeap(y) THEN 29 ELSE 28)
  ELSE IF m \in {4, 6, 9, 11} THEN 30 ELSE 31

\* HH[:MM[:SS]] ; result <<ok, h, m, s>>
ParseHHMMSS(s) ==
  LET n == Len(s)
      two(p) == SubSeq(s, p, p + 1) IN
  IF n \in {2, 5, 8} /\ AllDigits(two(1))
     /\ (n >= 5 => s[3] = ":" /\ AllDigits(two(4)))
     /\ (n >= 8 => s[6] = ":" /\ AllDigits(two(7)))
  THEN <<TRUE, DigitsVal(two(1)),
         IF n >= 5 THEN DigitsVal(two(4)) ELSE 0,
         IF n >= 8 THEN DigitsVal(two(7)) ELSE 0>>
  ELSE <<FALSE, 0, 0, 0>>

\* position of the first '+' or '-' in s, 0 when there is none
SignPos(s) ==
  IF \E k \in 1..Len(s) : s[k] \in {"+", "-"}
  THEN CHOOSE k \in 1..Len(s) :
         /\ s[k] \in {"+", "-"}
         /\ \A j \in 1..(k - 1) : s[j] \notin {"+", "-"}
  ELSE 0

\* the time part ts of a timestamp whose date is y-m-d: HH[:MM[:SS]] and
\* an optional UTC offset [+-]HH[:MM[:SS]] of less than 24 hours
ParseTime(y, m, d, ts) ==
  With(SignPos(ts), LAMBDA sp :
  With(<<ParseHHMMSS(IF sp = 0 THEN ts ELSE SubSeq(ts, 1, sp - 1)),
         IF sp = 0 THEN <<TRUE, 0, 0, 0>> ELSE ParseHHMMSS(SubSeq(ts, sp + 1, Len(ts))),
         IF sp # 0 /\ ts[sp] = "-" THEN 0 - 1 ELSE 1>>, LAMBDA p :
    LET c == p[1]
        z == p[2]
        offset == p[3] * (z[2] * 3600 + z[3] * 60 + z[4])
    IN
    IF ~c[1] \/ ~z[1] THEN NoDate
    ELSE IF ~(c[2] < 24 /\ c[3] < 60 /\ c[4] < 60) THEN NoDate
    ELSE IF ~(offset > 0 - 86400 /\ offset < 86400) THEN NoDate
    ELSE [exc |-> "", y |-> y, mo |-> m, d |-> d,
          h |-> c[2], mi |-> c[3], sec |-> c[4], aware |-> (sp # 0), off |-> offset]))

\* YYYY-MM-DD[*HH[:MM[:SS]][+HH:MM[:SS]]], * any one character
ParseIsoText(s) ==
  IF Len(s) < 10 THEN NoDate
  ELSE IF ~(/\ AllDigits(SubSeq(s, 1, 4)) /\ AllDigits(SubSeq(s, 6, 7))
            /\ AllDigits(SubSeq(s, 9, 10)) /\ s[5] = "-" /\ s[8] = "-") THEN NoDate
  ELSE
  With(<<DigitsVal(SubSeq(s, 1, 4)), DigitsVal(SubSeq(s, 6, 7)),
         DigitsVal(SubSeq(s, 9, 10))>>, LAMBDA ymd :
    IF ~(/\ ymd[1] >= 1 /\ ymd[2] \in 1..12
         /\ ymd[3] >= 1 /\ ymd[3] <= DaysInMonth(ymd[1], ymd[2])) THEN NoDate
    ELSE IF Len(s) = 10
         THEN [exc |-> "", y |-> ymd[1], mo |-> ymd[2], d |-> ymd[3],
               h |-> 0, mi |-> 0, sec |-> 0, aware |-> FALSE, off |-> 0]
    ELSE ParseTime(ymd[1], ymd[2], ymd[3], SubSeq(s, 12, Len(s))))

\* datetime.fromisoformat(x): a non-str argument raises TypeError
fromisoformat(v) ==
  With(v, LAMBDA x : IF x.t # "str" THEN TypeErr ELSE ParseIsoText(x.s))

Pad2(k) == IF k < 10 THEN <<"0">> \o NatText(k) ELSE NatText(k)
Pad4(k) == IF k < 10 THEN <<"0", "0", "0">> \o NatText(k)
           ELSE IF k < 100 THEN <<"0", "0">> \o NatText(k)
           ELSE IF k < 1000 THEN <<"0">> \o NatText(k)
           ELSE NatText(k)

\* datetime.isoformat(): YYYY-MM-DDTHH:MM:SS[+HH:MM[:SS]]
isoformat(d) ==
  With(d, LAMBDA dt :
    LET a == IF dt.off < 0 THEN 0 - dt.off ELSE dt.off
        offText == (IF dt.off < 0 THEN <<"-">> ELSE <<"+">>)
                   \o Pad2(a \div 3600) \o <<":">> \o Pad2((a % 3600) \div 60)
                   \o (IF a % 60 # 0 THEN <<":">> \o Pad2(a % 60) ELSE <<>>)
    IN Pad4(dt.y) \o <<"-">> \o Pad2(dt.mo) \o <<"-">> \o Pad2(dt.d) \o <<"T">>
       \o Pad2(dt.h) \o <<":">> \o Pad2(dt.mi) \o <<":">> \o Pad2(dt.sec)
       \o (IF dt.aware THEN offText ELSE <<>>))

(* ------------------- the store's ordering of values ------------------- *)
\* the characters the model's texts use, in ASCII order
Alphabet == <<" ", "+", "-", ".", "0", "1", "2", "3", "4", "5", "6", "7", "8", "9",
              ":", "T", "a", "b", "c", "d", "e", "f", "i", "l", "m", "n", "o", "t", "u">>
Code(c) == CHOOSE k \in 1..Len(Alphabet) : Alphabet[k] = c

\* memcmp order of two texts (SQLite's BINARY collation)
RECURSIVE TextLess(_, _)
TextLess(a, b) ==
  IF Len(b) = 0 THEN FALSE
  ELSE IF Len(a) = 0 THEN TRUE
  ELSE IF a[1] # b[1] THEN Code(a[1]) < Code(b[1])
  ELSE TextLess(Tail(a), Tail(b))

\* storage class rank: NULL < INTEGER < TEXT
SqlClass(v) == IF v.t = "None" THEN 0 ELSE IF v.t = "str" THEN 2 ELSE 1
SqlLess(a, b) ==
  IF SqlClass(a) # SqlClass(b) THEN SqlClass(a) < SqlClass(b)
  ELSE IF SqlClass(a) = 0 THEN FALSE
  ELSE IF SqlClass(a) = 1 THEN a.n < b.n
  ELSE TextLess(a.s, b.s)

\* mutation: the rows come back in ascending order
OrderedAsc(rs) ==
  \A i \in 1..Len(rs) : \A j \in (i + 1)..Len(rs) :
     ~SqlLess(rs[j].snapshotDate, rs[i].snapshotDate)

\* ORDER BY snapshotDate DESC: no row is followed by one that compares greater
OrderedDesc(rs) ==
  \A i \in 1..Len(rs) : \A j \in (i + 1)..Len(rs) :
     ~SqlLess(rs[i].snapshotDate, rs[j].snapshotDate)

\* the column list of the SELECT
Columns == <<"id", "userId", "snapshotDate", "snapshotType", "totalValue",
             "assetCount", "islamicYear", "isLocked", "createdAt">>

\* mutation: totalValue and assetCount change places in the SELECT list
ProjectSwapped(r) == <<r.id, r.userId, r.snapshotDate, r.snapshotType, r.assetCount,
                       r.totalValue, r.islamicYear, r.isLocked, r.createdAt>>

\* the tuple the SELECT yields for a stored row
Project(r) == <<r.id, r.userId, r.snapshotDate, r.snapshotType, r.totalValue,
                r.assetCount, r.islamicYear, r.isLocked, r.createdAt>>

\* every result the SELECT may return for a table (a set of rows): all its
\* rows, ordered by snapshotDate descending, rows with equal keys in any order
QueryResults(tbl) ==
  LET n == Cardinality(tbl) IN
  {[i \in 1..n |-> Project(rs[i])] :
     rs \in {q \in [1..n -> tbl] :
               /\ \A i, j \in 1..n : q[i] = q[j] => i = j
               /\ OrderedDesc(q)}}

(* --------------------------- sample data ------------------------------ *)
Stamp(y, mo, d, h, mi, sec) ==
  isoformat([exc |-> "", y |-> y, mo |-> mo, d |-> d, h |-> h, mi |-> mi,
             sec |-> sec, aware |-> FALSE, off |-> 0])
WithSep(text, c) == [text EXCEPT ![11] = c]

TCanonA == Stamp(2023, 6, 15, 10, 0, 0)
TCanonB == Stamp(2022, 1, 1, 0, 0, 0)
TSpace == WithSep(Stamp(2023, 6, 15, 11, 0, 0), " ")
TDateOnly == SubSeq(Stamp(2024, 2, 29, 0, 0, 0), 1, 10)
TOffset == Stamp(2023, 6, 16, 1, 0, 0) \o <<"+", "0", "5", ":", "3", "0">>
TBad == <<"n", "o", "t", "-", "a", "-", "d", "a", "t", "e">>
TYear == <<"1", "4", "4", "5">>
TType == <<"a", "n", "n", "u", "a", "l">>

Row(id, date, type, total, count, iyear, locked, created) ==
  [id |-> Str(<<"i", "d">> \o NatText(id)), userId |-> Str(<<"u">> \o NatText(id % 2)),
   snapshotDate |-> date, snapshotType |-> type, totalValue |-> total,
   assetCount |-> count, islamicYear |-> iyear, isLocked |-> PyInt(locked),
   createdAt |-> created]

SampleRows ==
  { Row(1, Str(TCanonA), Str(TType), PyInt(15000), PyInt(3), Str(TYear), 1, Str(TCanonA)),
    Row(2, Str(TCanonB), None, None, None, None, 0, Str(TCanonB)),
    Row(3, Str(TSpace), Str(TType), PyInt(0), PyInt(0), EmptyStr, 0, Str(TDateOnly)),
    Row(4, Str(TDateOnly), None, PyInt(7), PyInt(1), None, 1, Str(TSpace)),
    Row(5, Str(TBad), Str(TType), PyInt(7), None, None, 0, Str(TBad)),
    Row(6, None, None, PyInt(7), PyInt(1), None, 0, Str(TCanonB)),
    Row(7, PyInt(2023), Str(TType), None, PyInt(1), None, 1, PyInt(2023)),
    Row(8, EmptyStr, None, PyInt(7), PyInt(1), Str(TYear), 0, EmptyStr),
    Row(9, Str(TOffset), Str(TType), PyInt(7), PyInt(1), None, 0, Str(TOffset)),
    Row(10, Str(TCanonA), None, PyInt(7), PyInt(2), None, 0, Str(TCanonB)) }

\* the tables the store may hold: up to MaxRows sample rows, ids unique
Tables == {t \in SUBSET SampleRows : Cardinality(t) <= MaxRows}

(* ------------------------- resolve_db_path ---------------------------- *)
FilePrefix == <<"f", "i", "l", "e", ":">>
StartsWith(text, prefix) ==
  Len(text) >= Len(prefix) /\ SubSeq(text, 1, Len(prefix)) = prefix

\* mutation: the environment is preferred to the explicit argument
resolve_db_path_env_first(db_arg, env) ==
  LET db_url == IF Truthy(env) THEN env ELSE db_arg IN
  IF ~Truthy(db_url) THEN [exit |-> TRUE, path |-> <<>>]
  ELSE IF StartsWith(db_url.s, FilePrefix)
       THEN [exit |-> FALSE, path |-> SubSeq(db_url.s, Len(FilePrefix) + 1, Len(db_url.s))]
  ELSE [exit |-> FALSE, path |-> db_url.s]

\* db_arg or os.environ.get('DATABASE_URL'); exit is the SystemExit raised
\* with a message (exit status 1) when neither is set
resolve_db_path(db_arg, env) ==
  LET db_url == IF Truthy(db_arg) THEN db_arg ELSE env IN
  IF ~Truthy(db_url) THEN [exit |-> TRUE, path |-> <<>>]
  ELSE IF StartsWith(db_url.s, FilePrefix)
       THEN [exit |-> FALSE, path |-> SubSeq(db_url.s, Len(FilePrefix) + 1, Len(db_url.s))]
  ELSE [exit |-> FALSE, path |-> db_url.s]

(* ------------------------------ to_iso -------------------------------- *)
\* mutation: the except clause is missing
to_iso_uncaught(ts_str) ==
  With(ts_str, LAMBDA x :
    IF x.t = "None" THEN [raised |-> FALSE, v |-> EmptyStr]
    ELSE With(fromisoformat(x), LAMBDA dt :
           IF dt.exc = "" THEN [raised |-> FALSE, v |-> Str(isoformat(dt))]
           ELSE [raised |-> TRUE, v |-> EmptyStr]))

\* raised is TRUE when an exception leaves the function
to_iso(ts_str) ==
  With(ts_str, LAMBDA x :
    IF x.t = "None" THEN [raised |-> FALSE, v |-> EmptyStr]
    ELSE With(fromisoformat(x), LAMBDA dt :
           IF dt.exc = "" THEN [raised |-> FALSE, v |-> Str(isoformat(dt))]
           ELSE [raised |-> FALSE, v |-> Str(PyStr(x))]))

(* ----------------------- the per-row mapping -------------------------- *)
Header == <<"snapshot_id", "user_id", "snapshot_date", "islamic_year", "snapshot_type",
            "total_value", "asset_count", "is_locked", "created_at",
            "planned_nisab_year", "planned_nisab_value", "notes">>

\* dict(zip(columns, row)) and dict.get
RowDict(cols, row) ==
  LET n == IF Len(cols) < Len(row) THEN Len(cols) ELSE Len(row) IN
  [k \in {cols[i] : i \in 1..n} |->
     row[CHOOSE i \in 1..n : cols[i] = k /\ \A j \in (i + 1)..n : cols[j] # k]]
Get(d, k) == IF k \in DOMAIN d THEN d[k] ELSE None

NotesText(snapshot_type, is_locked) ==
  <<"s", "n", "a", "p", "s", "h", "o", "t", "_", "t", "y", "p", "e", "=">> \o PyStr(snapshot_type)
  \o <<";", " ", "i", "s", "_", "l", "o", "c", "k", "e", "d", "=">> \o PyStr(is_locked)

\* mutation: the year of the date is preferred to islamicYear
PlannedYearDateFirst(islamic_year, snapshot_date) ==
  With(fromisoformat(snapshot_date), LAMBDA dt :
    IF Truthy(snapshot_date) /\ dt.exc = "" THEN Str(NatText(dt.y)) ELSE islamic_year)

\* lines 108-113: the heuristic for planned_nisab_year
PlannedYear(islamic_year, snapshot_date) ==
  IF ~Truthy(islamic_year) /\ Truthy(snapshot_date)
  THEN With(fromisoformat(snapshot_date), LAMBDA dt :
         IF dt.exc = "" THEN Str(NatText(dt.y)) ELSE EmptyStr)
  ELSE islamic_year

\* the body of the loop over rows: the cells handed to writer.writerow
PlanRow(cols, row) ==
  With(RowDict(cols, row), LAMBDA rowd :
  With(<<to_iso(Get(rowd, "snapshotDate")), to_iso(Get(rowd, "createdAt"))>>, LAMBDA iso :
    LET snapshot_id == Get(rowd, "id")
        user_id == Get(rowd, "userId")
        snapshot_date == iso[1].v
        islamic_year == IF Truthy(Get(rowd, "islamicYear")) THEN Get(rowd, "islamicYear")
                        ELSE EmptyStr
        snapshot_type == IF Truthy(Get(rowd, "snapshotType")) THEN Get(rowd, "snapshotType")
                         ELSE EmptyStr
        total_value == IF Get(rowd, "totalValue").t # "None" THEN Get(rowd, "totalValue")
                       ELSE EmptyStr
        asset_count == IF Get(rowd, "assetCount").t # "None" THEN Get(rowd, "assetCount")
                       ELSE EmptyStr
        is_locked == Bool(Truthy(Get(rowd, "isLocked")))
        created_at == iso[2].v
        planned_nisab_value == total_value
        notes == Str(NotesText(snapshot_type, is_locked))
    IN
    With(PlannedYear(islamic_year, snapshot_date), LAMBDA planned_nisab_year :
      [raised |-> iso[1].raised \/ iso[2].raised,
       cells |-> <<CsvCell(snapshot_id), CsvCell(user_id), CsvCell(snapshot_date),
                   CsvCell(islamic_year), CsvCell(snapshot_type),
                   CsvCell(planned_nisab_value), CsvCell(asset_count),
                   CsvCell(is_locked), CsvCell(created_at),
                   CsvCell(planned_nisab_year), CsvCell(planned_nisab_value),
                   CsvCell(notes)>>])))

(* --------------------------- the file system -------------------------- *)
PathA == <<"a">>
PathB == <<"b">>
PathC == <<"c">>
PathD == <<"d">>
PathNames == {PathA, PathB, PathC, PathD, <<>>}

NoFile == [kind |-> "absent", hasTable |-> FALSE, table |-> {}]
EmptyDb == [kind |-> "db", hasTable |-> FALSE, table |-> {}]
DbWith(tbl) == [kind |-> "db", hasTable |-> TRUE, table |-> tbl]
\* an existing file that is not an SQLite database
NotDb == [kind |-> "notdb", hasTable |-> FALSE, table |-> {}]

\* mutation: the existence check is missing
PathExistsAlways(fs, path) == TRUE

\* os.path.exists
PathExists(fs, path) == path \in DOMAIN fs /\ fs[path].kind # "absent"

\* sqlite3.connect: opening a named path that has no file creates an empty
\* database file there
Connect(fs, path) ==
  IF path \in DOMAIN fs /\ path # <<>> /\ fs[path].kind = "absent"
  THEN [fs EXCEPT ![path] = EmptyDb]
  ELSE fs

\* the statement fetch_snapshots executes
QueryVerb == "SELECT"

\* cur.execute + fetchall on the file at path: err names the exception
\* raised, sqlite3.OperationalError for a missing relation or column and
\* sqlite3.DatabaseError (its base class) for a file that is not a database
fetch_snapshots(fs, path) ==
  LET f == IF path \in DOMAIN fs THEN fs[path] ELSE EmptyDb IN
  IF f.kind = "notdb" THEN [err |-> "DatabaseError", results |-> {<<>>}, fs |-> fs]
  ELSE IF ~f.hasTable
       THEN [err |-> "OperationalError", results |-> {<<>>}, fs |-> fs]
  ELSE IF QueryVerb = "SELECT"
       THEN [err |-> "", results |-> QueryResults(f.table), fs |-> fs]
  ELSE [err |-> "", results |-> {<<>>},
        fs |-> [fs EXCEPT ![path] = DbWith({})]]

NoOutput == [exists |-> FALSE, header |-> <<>>, data |-> <<>>]
OldOutput == [exists |-> TRUE, header |-> <<"old">>, data |-> <<>>]

(* ------------------------------ inputs -------------------------------- *)
\* values of --db (None when the option is not given)
DbArgs == {None, EmptyStr, Str(PathA), Str(FilePrefix \o PathA), Str(PathB),
           Str(PathC), Str(PathD), Str(FilePrefix)}
\* values of DATABASE_URL (None when unset)
EnvUrls == {None, EmptyStr, Str(FilePrefix \o PathA), Str(PathC)}

(* ------------------------------- state -------------------------------- *)
VARIABLES
  dbArg,      \* args.db of the current run
  envUrl,     \* DATABASE_URL of the current run
  files,      \* the file system: path -> database file
  outFile,    \* the output CSV file
  pc,         \* position of main()
  dbPath,     \* db_path
  conn,       \* "none", "open" or "closed"
  columns,    \* columns returned by fetch_snapshots
  rows,       \* rows returned by fetch_snapshots
  idx,        \* number of rows the loop has handled
  exitCode,   \* process exit status, -1 while running
  total,      \* the count printed as "Total snapshots", -1 when not printed
  issued,     \* statements executed against the store so far
  runs,       \* completed invocations
  outBefore   \* the output file as it was when the current run started

vars == <<dbArg, envUrl, files, outFile, pc, dbPath, conn, columns, rows, idx,
          exitCode, total, issued, runs, outBefore>>

Init ==
  /\ dbArg \in DbArgs
  /\ envUrl \in EnvUrls
  /\ \E tbl \in Tables :
       files = [p \in PathNames |->
                  IF p = PathA THEN DbWith(tbl)
                  ELSE IF p = PathB THEN EmptyDb
                  ELSE IF p = PathD THEN NotDb ELSE NoFile]
  /\ outFile \in {NoOutput, OldOutput}
  /\ outBefore = outFile
  /\ pc = "resolve"
  /\ dbPath = <<>>
  /\ conn = "none"
  /\ columns = <<>>
  /\ rows = <<>>
  /\ idx = 0
  /\ exitCode = 0 - 1
  /\ total = 0 - 1
  /\ issued = {}
  /\ runs = 0

Exit(code) == exitCode' = code /\ pc' = "done"

\* main, line 72: db_path = resolve_db_path(args.db)
Resolve ==
  /\ pc = "resolve"
  /\ LET r == resolve_db_path(dbArg, envUrl) IN
       IF r.exit THEN Exit(1) /\ UNCHANGED dbPath
       ELSE dbPath' = r.path /\ pc' = "exists" /\ UNCHANGED exitCode
  /\ UNCHANGED <<dbArg, envUrl, files, outFile, conn, columns, rows, idx, total,
                 issued, runs, outBefore>>

\* main, lines 73-75: the existence check
CheckExists ==
  /\ pc = "exists"
  /\ IF ~PathExists(files, dbPath) THEN Exit(2)
     ELSE pc' = "connect" /\ UNCHANGED exitCode
  /\ UNCHANGED <<dbArg, envUrl, files, outFile, dbPath, conn, columns, rows, idx,
                 total, issued, runs, outBefore>>

\* main, line 77: conn = sqlite3.connect(db_path)
OpenConnection ==
  /\ pc = "connect"
  /\ conn' = "open"
  /\ files' = Connect(files, dbPath)
  /\ pc' = "fetch"
  /\ UNCHANGED <<dbArg, envUrl, outFile, dbPath, columns, rows, idx, exitCode,
                 total, issued, runs, outBefore>>

\* mutation: the output is opened before the query is run
FetchAfterOpeningOutput ==
  /\ pc = "fetch"
  /\ outFile' = [exists |-> TRUE, header |-> Header, data |-> <<>>]
  /\ LET f == fetch_snapshots(files, dbPath) IN
       /\ issued' = issued \cup {QueryVerb}
       /\ files' = f.fs
       /\ IF f.err = "OperationalError" THEN Exit(3) /\ UNCHANGED <<columns, rows>>
          ELSE IF f.err # "" THEN Exit(1) /\ UNCHANGED <<columns, rows>>
          ELSE /\ \E rs \in f.results : rows' = rs
               /\ columns' = Columns
               /\ pc' = "open_out"
               /\ UNCHANGED exitCode
  /\ UNCHANGED <<dbArg, envUrl, dbPath, conn, idx, total, runs, outBefore>>

\* main, lines 78-82: the read query, exit 3 on OperationalError; any
\* other exception leaves main uncaught (traceback, exit status 1)
Fetch ==
  /\ pc = "fetch"
  /\ LET f == fetch_snapshots(files, dbPath) IN
       /\ issued' = issued \cup {QueryVerb}
       /\ files' = f.fs
       /\ IF f.err = "OperationalError" THEN Exit(3) /\ UNCHANGED <<columns, rows>>
          ELSE IF f.err # "" THEN Exit(1) /\ UNCHANGED <<columns, rows>>
          ELSE /\ \E rs \in f.results : rows' = rs
               /\ columns' = Columns
               /\ pc' = "open_out"
               /\ UNCHANGED exitCode
  /\ UNCHANGED <<dbArg, envUrl, outFile, dbPath, conn, idx, total, runs, outBefore>>

\* main, lines 84-92: open the output for writing (truncating it) and
\* write the header
OpenOutput ==
  /\ pc = "open_out"
  /\ outFile' = [exists |-> TRUE, header |-> Header, data |-> <<>>]
  /\ idx' = 0
  /\ pc' = "loop"
  /\ UNCHANGED <<dbArg, envUrl, files, dbPath, conn, columns, rows, exitCode,
                 total, issued, runs, outBefore>>

\* main, lines 94-122: one iteration of the loop; an exception leaving the
\* loop body ends the process with a traceback (exit status 1)
WriteRow ==
  /\ pc = "loop"
  /\ idx < Len(rows)
  /\ LET r == PlanRow(columns, rows[idx + 1]) IN
       IF r.raised THEN Exit(1) /\ UNCHANGED <<outFile, idx>>
       ELSE /\ outFile' = [outFile EXCEPT !.data = Append(@, r.cells)]
            /\ idx' = idx + 1
            /\ UNCHANGED <<pc, exitCode>>
  /\ UNCHANGED <<dbArg, envUrl, files, dbPath, conn, columns, rows, total, issued,
                 runs, outBefore>>

\* mutation: the header line is counted too
ReportedTotalWithHeader(rs) == Len(rs) + 1

\* the count printed at line 125
ReportedTotal(rs) == Len(rs)

\* main, lines 124-125, and the return from main (exit status 0)
Finish ==
  /\ pc = "loop"
  /\ idx >= Len(rows)
  /\ total' = ReportedTotal(rows)
  /\ Exit(0)
  /\ UNCHANGED <<dbArg, envUrl, files, outFile, dbPath, conn, columns, rows, idx,
                 issued, runs, outBefore>>

\* the tool is invoked again: a fresh process with new arguments and
\* environment, the same file system
Invoke ==
  /\ pc = "done"
  /\ runs + 1 < MaxRuns
  /\ runs' = runs + 1
  /\ dbArg' \in DbArgs
  /\ envUrl' \in EnvUrls
  /\ outBefore' = outFile
  /\ pc' = "resolve"
  /\ dbPath' = <<>>
  /\ conn' = "none"
  /\ columns' = <<>>
  /\ rows' = <<>>
  /\ idx' = 0
  /\ exitCode' = 0 - 1
  /\ total' = 0 - 1
  /\ UNCHANGED <<files, outFile, issued>>

\* the steps of one invocation
RunStep ==
  \/ Resolve
  \/ CheckExists
  \/ OpenConnection
  \/ Fetch
  \/ OpenOutput
  \/ WriteRow
  \/ Finish

Next == RunStep \/ Invoke

Spec == Init /\ [][Next]_vars

\* one invocation, which the interpreter runs to its end: main() is
\* sequential code without blocking calls
FairSpec == Init /\ [][RunStep]_vars /\ WF_vars(RunStep)

(* ====================== properties of the planner ===================== *)
\* the run read its rows and wrote the whole plan
Succeeded == pc = "done" /\ exitCode = 0
\* number of data rows in the output
Written == Len(outFile.data)
\* the stored row whose id is in the first cell of the k-th data row
StoredOf(k) == CHOOSE r \in files[dbPath].table : CsvCell(r.id) = outFile.data[k][1]
TextParses(v) == v.t = "str" /\ ParseIsoText(v.s).exc = ""

\* days from 0001-01-01 to the date, and seconds into the UTC day
RECURSIVE DaysBeforeMonth(_, _)
DaysBeforeMonth(y, m) == IF m = 1 THEN 0
                         ELSE DaysBeforeMonth(y, m - 1) + DaysInMonth(y, m - 1)
Ordinal(dt) ==
  LET p == dt.y - 1 IN
  p * 365 + (p \div 4) - (p \div 100) + (p \div 400) + DaysBeforeMonth(dt.y, dt.mo) + dt.d
SecondOfDay(dt) == dt.h * 3600 + dt.mi * 60 + dt.sec - dt.off
\* a is a later instant than b (both naive or both with an offset)
Later(a, b) ==
  LET dd == Ordinal(a) - Ordinal(b) IN
  IF dd > 1 THEN TRUE
  ELSE IF dd < 0 - 1 THEN FALSE
  ELSE dd * 86400 + SecondOfDay(a) - SecondOfDay(b) > 0
\* text in the layout isoformat produces for a timestamp without offset
Canonical(v) ==
  /\ TextParses(v)
  /\ ~ParseIsoText(v.s).aware
  /\ isoformat(ParseIsoText(v.s)) = v.s

(* C1: once the connection has been opened, it is released before the     *)
(* process ends, on every exit path (after exit 0 and after exit 3).      *)
C1_ConnectionReleasedAtExit == (pc = "done") => (conn # "open")

(* C2: the exit code is that of the first failing stage: 1 when neither   *)
(* --db nor DATABASE_URL gives a location, else 2 when the resolved path  *)
(* does not exist, else 3 when the store at that path does not hold the  *)
(* table, else 0 with the plan written.                                   *)
C2_ExitCodeOfFirstFailingStage ==
  (pc = "done") =>
    /\ exitCode = (IF ~(Truthy(dbArg) \/ Truthy(envUrl)) THEN 1
                   ELSE IF files[dbPath].kind = "absent" THEN 2
                   ELSE IF ~files[dbPath].hasTable THEN 3
                   ELSE 0)
    /\ (exitCode = 0 => outFile.exists /\ outFile.header = Header /\ total >= 0)

(* C3: a run that ends with exit code 1, 2 or 3 leaves the output file as *)
(* it was (absent stays absent, previous contents stay), and the output   *)
(* is not touched before the read query has succeeded.                    *)
C3_FatalExitLeavesOutputUntouched ==
  (\/ pc \in {"resolve", "exists", "connect", "fetch"}
   \/ (pc = "done" /\ exitCode \in {1, 2, 3}))
    => outFile = outBefore
C3_Witness ==
  pc = "done" /\ exitCode = 3 /\ outBefore.exists /\ outFile = outBefore

(* C4: no step of any run changes the store, and the only statement       *)
(* issued against it is a SELECT.                                         *)
C4_StoreIsNeverWritten == [][files' = files /\ issued' \subseteq {"SELECT"}]_vars
C4_Witness ==
  /\ runs >= 1 /\ Succeeded
  /\ files[dbPath].table # {}
  /\ issued = {"SELECT"}

(* C5 as stated: a non-empty --db value is the resolved path verbatim,    *)
(* also when it begins with file:.                                        *)
C5_ExplicitPathVerbatim ==
  (pc = "exists" /\ Truthy(dbArg)) => dbPath = dbArg.s
(* C5 amended: a non-empty --db value decides the resolved path alone     *)
(* (the fallback is not consulted): it is the value without its leading   *)
(* file: prefix when it has one, and the value verbatim otherwise.        *)
C5_ExplicitPathPrefixStripped ==
  (pc = "exists" /\ Truthy(dbArg)) =>
    IF StartsWith(dbArg.s, FilePrefix) THEN FilePrefix \o dbPath = dbArg.s
    ELSE dbPath = dbArg.s
C5_Witness ==
  pc = "exists" /\ dbArg = Str(FilePrefix \o PathA) /\ dbPath = PathA /\ Truthy(envUrl)

(* C6: the planned_nisab_year cell of every written row is islamicYear    *)
(* when that is a non-empty string, else the calendar year of             *)
(* snapshotDate when it parses as an ISO-8601 timestamp, else empty.      *)
C6_PlannedYearDerivation ==
  (pc \in {"loop", "done"} /\ outFile.exists /\ exitCode \in {0 - 1, 0}) =>
    \A k \in 1..Written :
      LET r == StoredOf(k) IN
      outFile.data[k][10] =
        (IF r.islamicYear.t = "str" /\ Len(r.islamicYear.s) > 0 THEN r.islamicYear.s
         ELSE IF TextParses(r.snapshotDate)
              THEN NatText(ParseIsoText(r.snapshotDate.s).y)
         ELSE <<>>)
C6_Witness ==
  /\ Succeeded
  /\ \E k \in 1..Written :
       /\ StoredOf(k).islamicYear = None
       /\ StoredOf(k).snapshotDate = Str(TDateOnly)
       /\ outFile.data[k][10] = <<"2", "0", "2", "4">>

(* C7: once the read query has succeeded the run reaches exit 0 with      *)
(* every row written, whatever the rows hold.                             *)
C7_PassRunsToCompletion ==
  (pc = "open_out") ~> (Succeeded /\ idx = Len(rows) /\ Written = Len(rows))
C7_Witness ==
  /\ Succeeded /\ Written = 2
  /\ \E k \in 1..Written :
       StoredOf(k).snapshotDate = Str(TBad) /\ outFile.data[k][10] = <<>>
  /\ \E k \in 1..Written : StoredOf(k).snapshotDate.t = "int"

(* C8: while writing, the data rows are the first idx read rows in order; *)
(* on success there is one data row per read row and per stored row, and  *)
(* the reported total is their number.                                    *)
C8_OneRowPerReadRowInOrder ==
  /\ (pc = "loop" \/ Succeeded) =>
       /\ outFile.header = Header
       /\ Written = idx /\ idx <= Len(rows)
       /\ \A k \in 1..Written : outFile.data[k][1] = CsvCell(rows[k][1])
  /\ Succeeded =>
       /\ Written = Len(rows)
       /\ Written = Cardinality(files[dbPath].table)
       /\ total = Written
C8_Witness == pc = "loop" /\ idx = 1 /\ Len(rows) = 2 /\ Written = 1

(* C9 as stated: of two output rows whose snapshotDate values denote      *)
(* different instants, the later one comes first, whatever the layout of  *)
(* the stored text.                                                       *)
C9_LaterDateFirstAnyLayout ==
  Succeeded =>
    \A i \in 1..Written : \A j \in (i + 1)..Written :
      LET a == StoredOf(i).snapshotDate
          b == StoredOf(j).snapshotDate IN
      (/\ TextParses(a) /\ TextParses(b)
       /\ ParseIsoText(a.s).aware = ParseIsoText(b.s).aware
       /\ (Later(ParseIsoText(a.s), ParseIsoText(b.s))
           \/ Later(ParseIsoText(b.s), ParseIsoText(a.s))))
        => Later(ParseIsoText(a.s), ParseIsoText(b.s))
(* C9 amended: of two output rows the first never compares below the      *)
(* second in the store's ordering of the stored values (byte-wise for     *)
(* text, text above numbers, NULL lowest); when both values are text in   *)
(* the layout YYYY-MM-DDTHH:MM:SS and differ, the first is the later one. *)
C9_StoreOrderDescending ==
  Succeeded =>
    \A i \in 1..Written : \A j \in (i + 1)..Written :
      LET a == StoredOf(i).snapshotDate
          b == StoredOf(j).snapshotDate IN
      /\ ~SqlLess(a, b)
      /\ (Canonical(a) /\ Canonical(b) /\ a # b)
           => Later(ParseIsoText(a.s), ParseIsoText(b.s))
C9_Witness ==
  /\ Succeeded /\ Written = 2
  /\ StoredOf(1).snapshotDate = Str(TCanonA)
  /\ StoredOf(2).snapshotDate = Str(TCanonB)

(* C10 as stated: the first nine cells of every written row equal the     *)
(* stored values of the row, null as the empty cell.                      *)
C10_NineFieldsVerbatim ==
  Succeeded =>
    \A k \in 1..Written :
      LET r == StoredOf(k) IN
      SubSeq(outFile.data[k], 1, 9) =
        <<CsvCell(r.id), CsvCell(r.userId), CsvCell(r.snapshotDate),
          CsvCell(r.islamicYear), CsvCell(r.snapshotType), CsvCell(r.totalValue),
          CsvCell(r.assetCount), CsvCell(r.isLocked), CsvCell(r.createdAt)>>
(* C10 amended: the id, user id, islamic year, snapshot type, total value *)
(* and asset count cells equal the stored values (null as the empty       *)
(* cell); the locked cell is True or False as the stored flag is non-zero *)
(* or zero; the snapshot_date and created_at cells are the stored text    *)
(* when it does not parse as a timestamp, and otherwise the same          *)
(* timestamp written as YYYY-MM-DDTHH:MM:SS plus its offset.              *)
StampCellOk(cell, stored) ==
  IF TextParses(stored)
  THEN /\ ParseIsoText(cell).exc = ""
       /\ ParseIsoText(cell) = ParseIsoText(stored.s)
       /\ Len(cell) >= 19 /\ cell[11] = "T" /\ cell[14] = ":" /\ cell[17] = ":"
  ELSE cell = CsvCell(stored)
C10_FieldsCarriedDatesNormalised ==
  Succeeded =>
    \A k \in 1..Written :
      LET r == StoredOf(k)
          c == outFile.data[k] IN
      /\ c[1] = CsvCell(r.id) /\ c[2] = CsvCell(r.userId)
      /\ c[4] = CsvCell(r.islamicYear) /\ c[5] = CsvCell(r.snapshotType)
      /\ c[6] = CsvCell(r.totalValue) /\ c[7] = CsvCell(r.assetCount)
      /\ c[8] = (IF r.isLocked.n # 0 THEN <<"T", "r", "u", "e">>
                 ELSE <<"F", "a", "l", "s", "e">>)
      /\ StampCellOk(c[3], r.snapshotDate)
      /\ StampCellOk(c[9], r.createdAt)
C10_Witness ==
  /\ Succeeded
  /\ \E k \in 1..Written :
       /\ StoredOf(k).snapshotDate = Str(TSpace)
       /\ outFile.data[k][3] = WithSep(TSpace, "T")
       /\ StoredOf(k).totalValue = PyInt(0)
       /\ outFile.data[k][6] = <<"0">>

====
